---- MODULE Spec2Model ----
(***************************************************************************)
(* Model of the aggregate health-check engine of yuna                      *)
(* (healthcheckHandler, readyStatus, HealthStatus.StatusCode).             *)
(*                                                                         *)
(* One readiness query is a process that walks through ready/readyStatus:  *)
(* it reads h.components, launches one goroutine per registration, waits   *)
(* on the WaitGroup, closes the result channel, folds the results and      *)
(* writes the HTTP response.  Each goroutine invokes its check and sends   *)
(* the returned status on the buffered channel.                            *)
(***************************************************************************)
EXTENDS Integers, Sequences, FiniteSets, TLC

\* ---------------------------------------------------------------- bounds
\* Largest number of registrations the model lets the host make.
MaxChecks == 2

\* Last instant of the clock (in seconds) the timed specification reaches.
MaxTime == 3

\* Largest number of calls the handler makes on one ResponseWriter.
MaxCalls == 3

\* ---------------------------------------------------------------- inputs
StatusUp == "UP"
StatusDegraded == "DEGRADED"
StatusDown == "DOWN"

\* HealthStatus is a string type: a check may return a value outside the
\* three declared constants; "UNKNOWN" stands for every such value.
StatusUnknown == "UNKNOWN"

DeclaredStatuses == {StatusUp, StatusDegraded, StatusDown}
CheckOutcomes == DeclaredStatuses \cup {StatusUnknown}

Names == {"db", "cache"}

TagLists == {<<>>, <<"sql">>}

\* The tags the host gives the component of a name.
TagsOf(name) == IF name = "db" THEN <<"sql">> ELSE <<>>

\* The ComponentRegistration values the host may register.  The base
\* specification has no clock: every registration leaves Timeout zero.
Registrations ==
    {c \in [name : Names, critical : BOOLEAN, tags : TagLists,
            timeout : {0}, checker : {"func"}] : c.tags = TagsOf(c.name)}

\* time.Second * 1, in seconds.
DefaultTimeout == 1

\* The registrations of the timed specification: Timeout zero or 2 seconds.
TimedRegistrations ==
    [name : {"db"}, critical : {FALSE}, tags : {<<>>},
     timeout : {0, DefaultTimeout + 1}, checker : {"func"}]

\* The zero value of ComponentRegistration (Checker is the nil interface).
ZeroRegistration ==
    [name |-> "", critical |-> FALSE, tags |-> <<>>, timeout |-> 0,
     checker |-> "nil"]

\* The readiness queries (HTTP requests to /ready) the model follows.
Queries == {"q1", "q2"}

\* Queries served by the base specification (one request at a time).
SerialQueries == {"q1"}

\* Deadline of the request context, relative to the arrival of the request.
NoDeadline == [has |-> FALSE, at |-> 0]

OuterDeadlines == {NoDeadline, [has |-> TRUE, at |-> DefaultTimeout]}

\* What a check returns in the timed specification.
TimedOutcomes == {StatusUp, StatusDown}

StatusOK == 200
StatusServiceUnavailable == 503

NoResp == [kind |-> "none"]

\* ------------------------------------------- inputs: authentication
StatusUnauthorized == 401
StatusForbidden == 403
StatusInternalServerError == 500

Roles == {"admin", "user"}

\* The Principal values of the model: what Anonymous() and HasRole(role)
\* answer.
Principals == [anonymous : BOOLEAN, roles : SUBSET Roles]

\* nopPrincipal
nopPrincipal == [anonymous |-> TRUE, roles |-> {}]

\* What ctx.Value(ContextKeyPrincipal).(Principal) yields: ok is false when
\* no Principal was stored (or a nil one).
NoPrincipal == [ok |-> FALSE, p |-> nopPrincipal]

CtxPrincipals == {NoPrincipal} \cup [ok : {TRUE}, p : Principals]

\* What HttpAuthenticator.Authenticate returns: an error, or a Principal
\* with a nil error; isNil marks the nil Principal.
AuthResults ==
    {[err |-> TRUE, isNil |-> TRUE, p |-> nopPrincipal],
     [err |-> FALSE, isNil |-> TRUE, p |-> nopPrincipal]}
        \cup [err : {FALSE}, isNil : {FALSE}, p : Principals]

NoAuthResult == [err |-> FALSE, isNil |-> TRUE, p |-> nopPrincipal]

\* The middlewares of this package a host can put in front of a handler.
Middlewares ==
    {[kind |-> "Authenticate", role |-> ""],
     [kind |-> "Authenticated", role |-> ""]}
        \cup [kind : {"RequireRole"}, role : Roles]

\* The chains the host builds: one middleware, or Authenticate followed by
\* an enforcing middleware.
Chains ==
    {<<m>> : m \in Middlewares}
        \cup {<<[kind |-> "Authenticate", role |-> ""], m>> :
                 m \in Middlewares \ {[kind |-> "Authenticate", role |-> ""]}}

\* No request has been served yet.
NoRequest ==
    [state |-> "idle", chain |-> <<>>, at |-> 0, principal |-> NoPrincipal,
     authn |-> NoAuthResult, code |-> 0, nextCalls |-> <<>>,
     handled |-> 0, seen |-> NoPrincipal]

\* ------------------------------------------- inputs: ResponseWriter
\* Status codes a handler passes to WriteHeader.
HeaderCodes == {StatusOK, 404, StatusInternalServerError}

\* Lengths of the byte slices, strings and readers a handler writes.
DataLens == {0, 1}

\* newResponseWriter(w), for an underlying writer that implements
\* io.ReaderFrom (readerFrom) and io.StringWriter (stringWriter) or not.
\* under.headers lists the WriteHeader calls the underlying writer received.
NewWriter(readerFrom, stringWriter) ==
    [statusCode |-> StatusOK, bytesWrote |-> 0, wroteHeader |-> 0,
     under |-> [readerFrom |-> readerFrom, stringWriter |-> stringWriter,
                headers |-> <<>>, bytes |-> 0],
     calls |-> <<>>]

\* ------------------------------------------- inputs: ProblemDetails
StatusBadRequest == 400
StatusUnprocessableEntity == 422

\* Go values that are stored in a ProblemDetails: a string, an int or a
\* Violations map (of which the model keeps the field names; isNil marks
\* the nil map).
Str(x) == [t |-> "string", s |-> x, n |-> 0, fields |-> {}, isNil |-> FALSE]
Num(x) == [t |-> "int", s |-> "", n |-> x, fields |-> {}, isNil |-> FALSE]
Viol(isNil, fields) ==
    [t |-> "violations", s |-> "", n |-> 0, fields |-> fields, isNil |-> isNil]

\* The Violations values a handler passes.
ViolationInputs ==
    {Viol(TRUE, {}), Viol(FALSE, {}), Viol(FALSE, {"email"}),
     Viol(FALSE, {"email", "name"})}

\* reservedKeys
reservedKeys == {"type", "title", "detail", "status", "instance", "violations"}

\* The extension keys of the model, in the order of sort.Strings.
ExtensionKeys == <<"status", "traceId", "violations">>

\* The values a handler adds with AddExtension.
ExtensionValues == {Str("x"), Num(7)}

\* No ProblemDetails has been built yet.
NoProblem ==
    [by |-> "none", given |-> Viol(TRUE, {}), Type |-> "", Title |-> "",
     Detail |-> "", Instance |-> "", StatusCode |-> 0,
     Extensions |-> [k \in {} |-> Str("")]]

\* ------------------------------------------- inputs: log level
LevelTrace == -5
LevelDebug == -4
LevelInfo == 0
LevelWarn == 4
LevelError == 8
LevelPanic == 10
LevelFatal == 12

Levels == {LevelTrace, LevelDebug, LevelInfo, LevelWarn, LevelError,
           LevelPanic, LevelFatal}

\* The level names of ParseLevel.
LevelOf ==
    [n \in {"trace", "debug", "info", "warn", "error", "panic", "fatal"} |->
        CASE n = "trace" -> LevelTrace
          [] n = "debug" -> LevelDebug
          [] n = "info" -> LevelInfo
          [] n = "warn" -> LevelWarn
          [] n = "error" -> LevelError
          [] n = "panic" -> LevelPanic
          [] OTHER -> LevelFatal]

\* The level strings clients send: the seven names, two of them in other
\* case, an unknown name and the empty string (no "level" member).
LevelStrings == DOMAIN LevelOf \cup {"INFO", "Warn", "verbose", ""}

\* strings.ToLower on the level strings of the model.
ToLower(x) ==
    CASE x = "INFO" -> "info"
      [] x = "Warn" -> "warn"
      [] OTHER -> x

\* Request bodies of PUT /log/level: decodes tells whether
\* json.NewDecoder(r.Body).Decode(&payload) succeeds, level is payload.Level.
Bodies ==
    [decodes : {TRUE}, level : LevelStrings]
        \cup {[decodes |-> FALSE, level |-> ""]}

NoBody == [decodes |-> FALSE, level |-> ""]

\* The loggers after New() with the default configuration: z.logger is the
\* global logger (shared), at the default level; no request answered yet.
DefaultLogs ==
    [shared |-> TRUE, yuna |-> LevelInfo, global |-> LevelInfo,
     req |-> NoBody, code |-> 0, success |-> FALSE]

\* ------------------------------------------- inputs: Start
\* The two http.Server values of a Yuna: z.opServer and z.server.
Servers == {"ops", "main"}

\* What ListenAndServe returns: http.ErrServerClosed or another error.
ErrServerClosed == "ErrServerClosed"
ErrOther == "other"

\* No error value.
NoError == [from |-> "", wraps |-> ""]

\* A Yuna whose Start has not been called.  g is the state of the goroutine
\* of each server, err what its ListenAndServe returned, closed whether
\* Close or Shutdown was called on the server, errs the channel, first and
\* second what Start received, via the receive Start returned after.
NotStarted ==
    [start |-> "idle", tls |-> FALSE,
     g |-> [x \in Servers |-> "none"],
     err |-> [x \in Servers |-> ""],
     closed |-> [x \in Servers |-> FALSE],
     errs |-> <<>>, cap |-> 0,
     first |-> NoError, second |-> NoError, via |-> 0, ret |-> "none"]

VARIABLES
    components,  \* h.components: the registration sequence
    pc,          \* position of each readiness query in ready/readyStatus
    snap,        \* the components argument of readyStatus
    task,        \* per launched goroutine: "spawned", "checking", "done", "panicked"
    wg,          \* the WaitGroup counter
    results,     \* the results channel: buffer, receive cursor, cap, closed
    response,    \* the HealthResponse under construction
    resp,        \* what ready wrote to the http.ResponseWriter
    liveResp,    \* what live wrote to the http.ResponseWriter
    proc,        \* the process: "running", "panicking" (unwinding), "exited"
    calls,       \* per goroutine: how often comp.Checker.Check was called
    returned,    \* per goroutine: the status Check returned, "none" before
    now,         \* the clock
    outer,       \* r.Context() of each readiness query
    cctx,        \* per goroutine: the context made by context.WithTimeout
    timing,      \* per query: when readyStatus began and returned
    asked,       \* the Timeout the host passed with each registration
    auth,        \* the request passing through the authentication middlewares
    rw,          \* the instrumenting ResponseWriter and the calls made on it
    pd,          \* the ProblemDetails a handler built
    buf,         \* the members MarshalJSON wrote for it, <<>> before
    logs,        \* the levels of z.logger and the global logger, and the
                 \* last answer of PUT /log/level
    srv          \* Start, its two server goroutines and the errs channel

\* The state of the health-check engine.
healthVars == <<components, pc, snap, task, wg, results, response, resp,
                liveResp, proc, calls, returned, now, outer, cctx, timing, asked>>

\* The state of the HTTP layer outside the health-check engine.
webVars == <<auth, rw, pd, buf, logs, srv>>

\* What the steps of one part of the HTTP layer leave unchanged.
exceptAuth == <<rw, pd, buf, logs, srv>>
exceptWriter == <<auth, pd, buf, logs, srv>>
exceptProblem == <<auth, rw, logs, srv>>
exceptLogs == <<auth, rw, pd, buf, srv>>
exceptStart == <<auth, rw, pd, buf, logs>>

vars == <<healthVars, webVars>>

evalVars == <<pc, snap, task, wg, results, response, resp,
              calls, returned, outer, cctx, timing>>

\* ------------------------------------------------------------ operators

\* HealthStatus.String
String(s) == s

\* healthStatusToCode
healthStatusToCode ==
    [s \in DeclaredStatuses |->
        IF s = StatusDown THEN StatusServiceUnavailable ELSE StatusOK]

StatusCode_DegradedUnavailable(s) ==
    IF s = StatusUp THEN StatusOK ELSE StatusServiceUnavailable

\* HealthStatus.StatusCode
StatusCode(s) ==
    IF s \notin DOMAIN healthStatusToCode
    THEN StatusServiceUnavailable
    ELSE healthStatusToCode[s]

FoldStatus_DegradedOverwrites(overall, res) ==
    CASE res.status = StatusUp -> overall
      [] res.status = StatusDegraded -> StatusDegraded
      [] res.status = StatusDown ->
            IF res.critical THEN StatusDown
            ELSE IF overall # StatusDown THEN StatusDegraded ELSE overall
      [] OTHER -> overall

FoldStatus_NonCriticalDown(overall, res) ==
    CASE res.status = StatusUp -> overall
      [] res.status = StatusDegraded ->
            IF overall # StatusDown THEN StatusDegraded ELSE overall
      [] res.status = StatusDown -> StatusDown
      [] OTHER -> overall

FoldStatus_CriticalDegrades(overall, res) ==
    CASE res.status = StatusUp -> overall
      [] res.status = StatusDegraded ->
            IF overall # StatusDown THEN StatusDegraded ELSE overall
      [] res.status = StatusDown ->
            IF overall # StatusDown THEN StatusDegraded ELSE overall
      [] OTHER -> overall

FoldStatus_IgnoresNonCriticalDown(overall, res) ==
    CASE res.status = StatusUp -> overall
      [] res.status = StatusDegraded ->
            IF overall # StatusDown THEN StatusDegraded ELSE overall
      [] res.status = StatusDown ->
            IF res.critical THEN StatusDown ELSE overall
      [] OTHER -> overall

FoldStatus_UpResets(overall, res) ==
    CASE res.status = StatusUp -> StatusUp
      [] res.status = StatusDegraded ->
            IF overall # StatusDown THEN StatusDegraded ELSE overall
      [] res.status = StatusDown ->
            IF res.critical THEN StatusDown
            ELSE IF overall # StatusDown THEN StatusDegraded ELSE overall
      [] OTHER -> overall

FoldStatus_UnknownIsDown(overall, res) ==
    CASE res.status = StatusUp -> overall
      [] res.status = StatusDegraded ->
            IF overall # StatusDown THEN StatusDegraded ELSE overall
      [] res.status = StatusDown ->
            IF res.critical THEN StatusDown
            ELSE IF overall # StatusDown THEN StatusDegraded ELSE overall
      [] OTHER -> StatusDown

\* The switch on res.status in the fold loop of readyStatus: the new value of
\* response.Status after one result.
FoldStatus(overall, res) ==
    CASE res.status = StatusUp -> overall
      [] res.status = StatusDegraded ->
            IF overall # StatusDown THEN StatusDegraded ELSE overall
      [] res.status = StatusDown ->
            LET afterCritical == IF res.critical THEN StatusDown ELSE overall
            IN  IF ~res.critical /\ afterCritical # StatusDown
                THEN StatusDegraded
                ELSE afterCritical
      [] OTHER -> overall

MakeChan_Unbuffered(n) == [buf |-> <<>>, head |-> 0, cap |-> 0, closed |-> FALSE]

\* The channel make(chan result, n).
MakeChan(n) == [buf |-> <<>>, head |-> 0, cap |-> n, closed |-> FALSE]

\* Number of results buffered and not yet received.
ChanLen(ch) == Len(ch.buf) - ch.head

\* The deadline at instant t.
At(t) == [has |-> TRUE, at |-> t]

\* The earlier of two deadlines.
EarlierDeadline(a, b) ==
    IF ~a.has THEN b
    ELSE IF ~b.has THEN a
    ELSE IF a.at <= b.at THEN a ELSE b

\* A deadline has been reached at instant t.
Expired(d, t) == d.has /\ d.at <= t

\* Instant t is later than the deadline.
Missed(d, t) == d.has /\ t > d.at

\* The context of a goroutine that has not yet called context.WithTimeout.
NoCtx == [deadline |-> NoDeadline, done |-> FALSE, linked |-> FALSE]

WithTimeout_Background(parent, timeout, t) ==
    [deadline |-> At(t + timeout),
     done |-> Expired(At(t + timeout), t),
     linked |-> FALSE]

\* context.WithTimeout(parent, timeout) called at instant t: the child's
\* deadline is the earlier of the parent's and t + timeout, the child is
\* done at once when the parent is or the deadline has passed, and it is
\* linked to the parent so that the parent's cancellation reaches it.
WithTimeout(parent, timeout, t) ==
    LET d == EarlierDeadline(parent.deadline, At(t + timeout))
    IN  [deadline |-> d,
         done |-> parent.done \/ Expired(d, t),
         linked |-> TRUE]

\* The contexts of the goroutines of one query after the parent context
\* became par and the clock reached t.
Propagate(cs, par, t) ==
    [k \in DOMAIN cs |->
        [cs[k] EXCEPT !.done =
            @ \/ (cs[k].linked /\ par.done) \/ (cs[k].linked /\ Expired(cs[k].deadline, t))]]

NoTiming == [start |-> 0, finish |-> 0, late |-> FALSE]

\* ---------------------------------------------------------------- Init

Init ==
    /\ components = <<>>
    /\ pc = [q \in Queries |-> "idle"]
    /\ snap = [q \in Queries |-> <<>>]
    /\ task = [q \in Queries |-> <<>>]
    /\ wg = [q \in Queries |-> 0]
    /\ results = [q \in Queries |-> MakeChan(0)]
    /\ response = [q \in Queries |-> [Status |-> StatusUp, Components |-> <<>>]]
    /\ resp = [q \in Queries |-> NoResp]
    /\ liveResp = NoResp
    /\ proc = "running"
    /\ calls = [q \in Queries |-> <<>>]
    /\ returned = [q \in Queries |-> <<>>]
    /\ now = 0
    /\ outer = [q \in Queries |-> [deadline |-> NoDeadline, done |-> FALSE]]
    /\ cctx = [q \in Queries |-> <<>>]
    /\ timing = [q \in Queries |-> NoTiming]
    /\ asked = <<>>
    /\ auth = NoRequest
    /\ rw = NewWriter(FALSE, FALSE)
    /\ pd = NoProblem
    /\ buf = <<>>
    /\ logs = DefaultLogs
    /\ srv = NotStarted

\* -------------------------------------------------------------- actions

\* The process has not been terminated by an unrecovered panic.
Alive == proc # "exited"

register_Replaces(c) ==
    components' = <<c>>

\* healthcheckHandler.register
register(c) ==
    components' = Append(components, c)

\* The registration RegisterHealthCheck hands to register.
Defaulted(component) ==
    IF component.timeout = 0
    THEN [component EXCEPT !.timeout = DefaultTimeout]
    ELSE component

RegisterHealthCheck_KeepsZero(component) ==
    /\ Alive
    /\ Len(components) < MaxChecks
    /\ register(component)
    /\ asked' = Append(asked, component.timeout)
    /\ UNCHANGED <<webVars, evalVars, liveResp, proc, now>>

RegisterHealthCheck_AlwaysDefault(component) ==
    /\ Alive
    /\ Len(components) < MaxChecks
    /\ register([component EXCEPT !.timeout = DefaultTimeout])
    /\ asked' = Append(asked, component.timeout)
    /\ UNCHANGED <<webVars, evalVars, liveResp, proc, now>>

RegisterHealthCheck_SharedSlice(component) ==
    /\ Alive
    /\ Len(components) < MaxChecks
    /\ register(Defaulted(component))
    /\ asked' = Append(asked, component.timeout)
    /\ snap' = [q \in Queries |->
                  IF pc[q] = "launch" /\ Len(task[q]) < Len(snap[q])
                  THEN Append(snap[q], Defaulted(component))
                  ELSE snap[q]]
    /\ UNCHANGED <<pc, task, wg, results, response, resp,
                   calls, returned, outer, cctx, timing>>
    /\ UNCHANGED <<webVars, liveResp, proc, now>>

\* Yuna.RegisterHealthCheck
RegisterHealthCheck(component) ==
    /\ Alive
    /\ Len(components) < MaxChecks
    /\ register(Defaulted(component))
    /\ asked' = Append(asked, component.timeout)
    /\ UNCHANGED <<webVars, evalVars, liveResp, proc, now>>

live_Evaluates ==
    /\ Alive
    /\ liveResp' = [kind |-> "live",
                    code |-> StatusCode(response["q1"].Status),
                    status |-> response["q1"].Status]
    /\ UNCHANGED <<webVars, components, asked, evalVars, proc, now>>

\* healthcheckHandler.live
live ==
    /\ Alive
    /\ liveResp' = [kind |-> "live", code |-> StatusOK, status |-> StatusUp]
    /\ UNCHANGED <<webVars, components, asked, evalVars, proc, now>>

\* The entry of readyStatus with the slice value cs, for a request whose
\* context has deadline d (relative to the arrival of the request).
enter(q, cs, d) ==
    /\ pc' = [pc EXCEPT ![q] = "launch"]
    /\ snap' = [snap EXCEPT ![q] = cs]
    /\ task' = [task EXCEPT ![q] = <<>>]
    /\ wg' = [wg EXCEPT ![q] = 0]
    /\ results' = [results EXCEPT ![q] = MakeChan(Len(cs))]
    /\ response' = [response EXCEPT ![q] = [Status |-> StatusUp, Components |-> <<>>]]
    /\ resp' = [resp EXCEPT ![q] = NoResp]
    /\ calls' = [calls EXCEPT ![q] = <<>>]
    /\ returned' = [returned EXCEPT ![q] = <<>>]
    /\ cctx' = [cctx EXCEPT ![q] = <<>>]
    /\ outer' = [outer EXCEPT ![q] =
                   [deadline |-> IF d.has THEN At(now + d.at) ELSE NoDeadline,
                    done |-> FALSE]]
    /\ timing' = [timing EXCEPT ![q] = [NoTiming EXCEPT !.start = now]]

readyBegin_Cached(q, d) ==
    /\ Alive
    /\ pc[q] \in {"idle", "done"}
    /\ IF \E r \in Queries \ {q} : pc[r] = "done" /\ resp[r].kind = "ready"
       THEN LET r == CHOOSE r \in Queries \ {q} :
                         pc[r] = "done" /\ resp[r].kind = "ready"
            IN  /\ pc' = [pc EXCEPT ![q] = "done"]
                /\ snap' = [snap EXCEPT ![q] = components]
                /\ resp' = [resp EXCEPT ![q] = resp[r]]
                /\ UNCHANGED <<task, wg, results, response, calls, returned,
                               outer, cctx, timing>>
       ELSE enter(q, components, d)
    /\ UNCHANGED <<webVars, components, asked, liveResp, proc, now>>

\* healthcheckHandler.ready up to the entry of readyStatus: the handler reads
\* h.components and readyStatus makes the channel.
readyBegin(q, d) ==
    /\ Alive
    /\ pc[q] \in {"idle", "done"}
    /\ enter(q, components, d)
    /\ UNCHANGED <<webVars, components, asked, liveResp, proc, now>>

\* ready reads h.components while RegisterHealthCheck(component) stores it:
\* the two are not synchronised.  Besides the old and the new slice (the
\* two orders of readyBegin and RegisterHealthCheck) the read can yield the
\* new length with an element that has not been written: the zero value.
readyBeginTorn(q, d, component) ==
    /\ Alive
    /\ pc[q] \in {"idle", "done"}
    /\ Len(components) < MaxChecks
    /\ register(Defaulted(component))
    /\ asked' = Append(asked, component.timeout)
    /\ enter(q, Append(components, ZeroRegistration), d)
    /\ UNCHANGED <<webVars, liveResp, proc, now>>

launch_Sequential(q) ==
    /\ Alive
    /\ pc[q] = "launch"
    /\ Len(task[q]) < Len(snap[q])
    /\ \A k \in DOMAIN task[q] : task[q][k] \in {"done", "panicked"}
    /\ wg' = [wg EXCEPT ![q] = @ + 1]
    /\ task' = [task EXCEPT ![q] = Append(@, "spawned")]
    /\ calls' = [calls EXCEPT ![q] = Append(@, 0)]
    /\ returned' = [returned EXCEPT ![q] = Append(@, "none")]
    /\ cctx' = [cctx EXCEPT ![q] = Append(@, NoCtx)]
    /\ UNCHANGED <<webVars, components, asked, pc, snap, results, response, resp, liveResp,
                   proc, now, outer, timing>>

\* One iteration of "for _, c := range components": wg.Add(1); go func(c).
launch(q) ==
    /\ Alive
    /\ pc[q] = "launch"
    /\ Len(task[q]) < Len(snap[q])
    /\ wg' = [wg EXCEPT ![q] = @ + 1]
    /\ task' = [task EXCEPT ![q] = Append(@, "spawned")]
    /\ calls' = [calls EXCEPT ![q] = Append(@, 0)]
    /\ returned' = [returned EXCEPT ![q] = Append(@, "none")]
    /\ cctx' = [cctx EXCEPT ![q] = Append(@, NoCtx)]
    /\ UNCHANGED <<webVars, components, asked, pc, snap, results, response, resp, liveResp,
                   proc, now, outer, timing>>

\* The goroutine of task k panics: the deferred cancel and wg.Done run, no
\* result is sent, and the runtime starts terminating the process.
unwind(q, k, c) ==
    /\ task' = [task EXCEPT ![q][k] = "panicked"]
    /\ cctx' = [cctx EXCEPT ![q][k] = [c EXCEPT !.done = TRUE]]
    /\ wg' = [wg EXCEPT ![q] = @ - 1]
    /\ proc' = "panicking"

taskInvoke_Background(q, k) ==
    /\ Alive
    /\ k \in DOMAIN task[q]
    /\ task[q][k] = "spawned"
    /\ snap[q][k].checker # "nil"
    /\ task' = [task EXCEPT ![q][k] = "checking"]
    /\ cctx' = [cctx EXCEPT ![q][k] =
                  WithTimeout_Background(outer[q], snap[q][k].timeout, now)]
    /\ calls' = [calls EXCEPT ![q][k] = @ + 1]
    /\ UNCHANGED <<wg, proc>>
    /\ UNCHANGED <<webVars, components, asked, pc, snap, results, response, resp, liveResp,
                   returned, now, outer, timing>>

taskInvoke_AfterPrevious(q, k) ==
    /\ Alive
    /\ k \in DOMAIN task[q]
    /\ task[q][k] = "spawned"
    /\ \A j \in 1..(k - 1) : task[q][j] \in {"done", "panicked"}
    /\ snap[q][k].checker # "nil"
    /\ task' = [task EXCEPT ![q][k] = "checking"]
    /\ cctx' = [cctx EXCEPT ![q][k] =
                  WithTimeout(outer[q], snap[q][k].timeout, now)]
    /\ calls' = [calls EXCEPT ![q][k] = @ + 1]
    /\ UNCHANGED <<wg, proc>>
    /\ UNCHANGED <<webVars, components, asked, pc, snap, results, response, resp, liveResp,
                   returned, now, outer, timing>>

\* The goroutine derives its context and calls comp.Checker.Check(ctx).
\* Calling Check on the nil interface panics.
taskInvoke(q, k) ==
    /\ Alive
    /\ k \in DOMAIN task[q]
    /\ task[q][k] = "spawned"
    /\ LET c == WithTimeout(outer[q], snap[q][k].timeout, now)
       IN  IF snap[q][k].checker = "nil"
           THEN /\ unwind(q, k, c)
                /\ UNCHANGED calls
           ELSE /\ task' = [task EXCEPT ![q][k] = "checking"]
                /\ cctx' = [cctx EXCEPT ![q][k] = c]
                /\ calls' = [calls EXCEPT ![q][k] = @ + 1]
                /\ UNCHANGED <<wg, proc>>
    /\ UNCHANGED <<webVars, components, asked, pc, snap, results, response, resp, liveResp,
                   returned, now, outer, timing>>

taskReturn_RetryOnDown(q, k, s) ==
    /\ Alive
    /\ k \in DOMAIN task[q]
    /\ task[q][k] = "checking"
    /\ ~results[q].closed
    /\ ChanLen(results[q]) < results[q].cap
    /\ IF s = StatusDown /\ calls[q][k] < 2
       THEN /\ task' = [task EXCEPT ![q][k] = "spawned"]
            /\ UNCHANGED <<results, returned, cctx, wg, timing>>
       ELSE /\ results' = [results EXCEPT ![q].buf =
                     Append(@, [name |-> snap[q][k].name,
                                critical |-> snap[q][k].critical,
                                status |-> s,
                                tags |-> snap[q][k].tags])]
            /\ task' = [task EXCEPT ![q][k] = "done"]
            /\ returned' = [returned EXCEPT ![q][k] = s]
            /\ cctx' = [cctx EXCEPT ![q][k].done = TRUE]
            /\ wg' = [wg EXCEPT ![q] = @ - 1]
            /\ timing' = [timing EXCEPT ![q].late =
                            @ \/ Missed(cctx[q][k].deadline, now)]
    /\ UNCHANGED <<webVars, components, asked, pc, snap, response, resp, liveResp,
                   proc, calls, now, outer>>

taskReturn_NoDone(q, k, s) ==
    /\ Alive
    /\ k \in DOMAIN task[q]
    /\ task[q][k] = "checking"
    /\ ~results[q].closed
    /\ ChanLen(results[q]) < results[q].cap
    /\ results' = [results EXCEPT ![q].buf =
                     Append(@, [name |-> snap[q][k].name,
                                critical |-> snap[q][k].critical,
                                status |-> s,
                                tags |-> snap[q][k].tags])]
    /\ task' = [task EXCEPT ![q][k] = "done"]
    /\ returned' = [returned EXCEPT ![q][k] = s]
    /\ cctx' = [cctx EXCEPT ![q][k].done = TRUE]
    /\ UNCHANGED wg
    /\ timing' = [timing EXCEPT ![q].late =
                    @ \/ Missed(cctx[q][k].deadline, now)]
    /\ UNCHANGED <<webVars, components, asked, pc, snap, response, resp, liveResp,
                   proc, calls, now, outer>>

\* Check returns status s; the goroutine sends the result and the deferred
\* cancel and wg.Done run.
taskReturn(q, k, s) ==
    /\ Alive
    /\ k \in DOMAIN task[q]
    /\ task[q][k] = "checking"
    /\ ~results[q].closed
    /\ ChanLen(results[q]) < results[q].cap
    /\ results' = [results EXCEPT ![q].buf =
                     Append(@, [name |-> snap[q][k].name,
                                critical |-> snap[q][k].critical,
                                status |-> s,
                                tags |-> snap[q][k].tags])]
    /\ task' = [task EXCEPT ![q][k] = "done"]
    /\ returned' = [returned EXCEPT ![q][k] = s]
    /\ cctx' = [cctx EXCEPT ![q][k].done = TRUE]
    /\ wg' = [wg EXCEPT ![q] = @ - 1]
    /\ timing' = [timing EXCEPT ![q].late =
                    @ \/ Missed(cctx[q][k].deadline, now)]
    /\ UNCHANGED <<webVars, components, asked, pc, snap, response, resp, liveResp,
                   proc, calls, now, outer>>

\* Check panics instead of returning: nothing in the goroutine recovers.
taskPanic(q, k) ==
    /\ Alive
    /\ k \in DOMAIN task[q]
    /\ task[q][k] = "checking"
    /\ unwind(q, k, cctx[q][k])
    /\ UNCHANGED <<webVars, components, asked, pc, snap, results, response, resp, liveResp,
                   calls, returned, now, outer, timing>>

\* The runtime terminates the process after the unrecovered panic: the
\* evaluations and their goroutines are gone; the responses already written
\* stay with their clients.
exit ==
    /\ proc = "panicking"
    /\ proc' = "exited"
    /\ pc' = [q \in Queries |-> "idle"]
    /\ snap' = [q \in Queries |-> <<>>]
    /\ task' = [q \in Queries |-> <<>>]
    /\ wg' = [q \in Queries |-> 0]
    /\ results' = [q \in Queries |-> MakeChan(0)]
    /\ response' = [q \in Queries |-> [Status |-> StatusUp, Components |-> <<>>]]
    /\ calls' = [q \in Queries |-> <<>>]
    /\ returned' = [q \in Queries |-> <<>>]
    /\ outer' = [q \in Queries |-> [deadline |-> NoDeadline, done |-> FALSE]]
    /\ cctx' = [q \in Queries |-> <<>>]
    /\ timing' = [q \in Queries |-> NoTiming]
    /\ UNCHANGED <<webVars, components, asked, resp, liveResp, now>>

waitClose_NoBarrier(q) ==
    /\ Alive
    /\ pc[q] = "launch"
    /\ Len(task[q]) = Len(snap[q])
    /\ results' = [results EXCEPT ![q].closed = TRUE]
    /\ response' = [response EXCEPT ![q] = [Status |-> StatusUp, Components |-> <<>>]]
    /\ pc' = [pc EXCEPT ![q] = "fold"]
    /\ UNCHANGED <<webVars, components, asked, snap, task, wg, resp, liveResp,
                   proc, calls, returned, now, outer, cctx, timing>>

waitClose_StartsDegraded(q) ==
    /\ Alive
    /\ pc[q] = "launch"
    /\ Len(task[q]) = Len(snap[q])
    /\ wg[q] = 0
    /\ results' = [results EXCEPT ![q].closed = TRUE]
    /\ response' = [response EXCEPT ![q] = [Status |-> StatusDegraded, Components |-> <<>>]]
    /\ pc' = [pc EXCEPT ![q] = "fold"]
    /\ UNCHANGED <<webVars, components, asked, snap, task, wg, resp, liveResp,
                   proc, calls, returned, now, outer, cctx, timing>>

\* The range loop has ended; wg.Wait() returns, close(results), and the
\* response is initialised.
waitClose(q) ==
    /\ Alive
    /\ pc[q] = "launch"
    /\ Len(task[q]) = Len(snap[q])
    /\ wg[q] = 0
    /\ results' = [results EXCEPT ![q].closed = TRUE]
    /\ response' = [response EXCEPT ![q] = [Status |-> StatusUp, Components |-> <<>>]]
    /\ pc' = [pc EXCEPT ![q] = "fold"]
    /\ UNCHANGED <<webVars, components, asked, snap, task, wg, resp, liveResp,
                   proc, calls, returned, now, outer, cctx, timing>>

foldResult_DedupByName(q) ==
    /\ Alive
    /\ pc[q] = "fold"
    /\ ChanLen(results[q]) > 0
    /\ LET res == results[q].buf[results[q].head + 1]
           seen == \E i \in DOMAIN response[q].Components :
                      response[q].Components[i].Name = res.name
       IN  /\ response' = [response EXCEPT ![q] =
                 [Status |-> FoldStatus(@.Status, res),
                  Components |-> IF seen THEN @.Components
                                 ELSE Append(@.Components,
                                        [Name |-> res.name, Status |-> res.status,
                                         Tags |-> res.tags])]]
           /\ results' = [results EXCEPT ![q].head = @ + 1]
    /\ UNCHANGED <<webVars, components, asked, pc, snap, task, wg, resp, liveResp,
                   proc, calls, returned, now, outer, cctx, timing>>

\* One iteration of "for res := range results".
foldResult(q) ==
    /\ Alive
    /\ pc[q] = "fold"
    /\ ChanLen(results[q]) > 0
    /\ LET res == results[q].buf[results[q].head + 1]
       IN  /\ response' = [response EXCEPT ![q] =
                 [Status |-> FoldStatus(@.Status, res),
                  Components |-> Append(@.Components,
                                        [Name |-> res.name, Status |-> res.status,
                                         Tags |-> res.tags])]]
           /\ results' = [results EXCEPT ![q].head = @ + 1]
    /\ UNCHANGED <<webVars, components, asked, pc, snap, task, wg, resp, liveResp,
                   proc, calls, returned, now, outer, cctx, timing>>

readyWrite_HeaderUp(q) ==
    /\ Alive
    /\ pc[q] = "fold"
    /\ results[q].closed
    /\ ChanLen(results[q]) = 0
    /\ resp' = [resp EXCEPT ![q] =
                  [kind |-> "ready",
                   code |-> StatusCode(response[q].Status),
                   header |-> String(StatusUp),
                   body |-> response[q]]]
    /\ pc' = [pc EXCEPT ![q] = "done"]
    /\ outer' = [outer EXCEPT ![q].done = TRUE]
    /\ timing' = [timing EXCEPT ![q].finish = now]
    /\ UNCHANGED <<webVars, components, asked, snap, task, wg, results, response, liveResp,
                   proc, calls, returned, now, cctx>>

\* The channel is closed and drained: readyStatus returns the response and
\* ready writes the header, the status code and the body; the server cancels
\* the request context when the handler returns.
readyWrite(q) ==
    /\ Alive
    /\ pc[q] = "fold"
    /\ results[q].closed
    /\ ChanLen(results[q]) = 0
    /\ resp' = [resp EXCEPT ![q] =
                  [kind |-> "ready",
                   code |-> StatusCode(response[q].Status),
                   header |-> String(response[q].Status),
                   body |-> response[q]]]
    /\ pc' = [pc EXCEPT ![q] = "done"]
    /\ outer' = [outer EXCEPT ![q].done = TRUE]
    /\ timing' = [timing EXCEPT ![q].finish = now]
    /\ UNCHANGED <<webVars, components, asked, snap, task, wg, results, response, liveResp,
                   proc, calls, returned, now, cctx>>

\* The request context is cancelled (the client went away) while the
\* evaluation is in flight: the cancellation reaches every linked child.
outerCancel(q) ==
    /\ Alive
    /\ pc[q] \in {"launch", "fold"}
    /\ ~outer[q].done
    /\ outer' = [outer EXCEPT ![q].done = TRUE]
    /\ cctx' = [cctx EXCEPT ![q] = Propagate(@, outer'[q], now)]
    /\ UNCHANGED <<webVars, components, asked, pc, snap, task, wg, results, response, resp,
                   liveResp, proc, calls, returned, now, timing>>

\* Some step of the evaluation itself (not of a check) can be taken: the
\* evaluator's own computation takes no time.
Busy(q) ==
    \/ ENABLED launch(q)
    \/ \E k \in DOMAIN task[q] : ENABLED taskInvoke(q, k)
    \/ ENABLED waitClose(q)
    \/ ENABLED foldResult(q)
    \/ ENABLED readyWrite(q)

\* One second passes; the timers of the contexts whose deadline is reached
\* fire.
tick ==
    /\ Alive
    /\ now < MaxTime
    /\ \A q \in Queries : ~Busy(q)
    /\ now' = now + 1
    /\ outer' = [q \in Queries |->
                    [outer[q] EXCEPT !.done = @ \/ Expired(outer[q].deadline, now')]]
    /\ cctx' = [q \in Queries |-> Propagate(cctx[q], outer'[q], now')]
    /\ UNCHANGED <<webVars, components, asked, pc, snap, task, wg, results, response, resp,
                   liveResp, proc, calls, returned, timing>>

ready(q) ==
    \/ readyBegin(q, NoDeadline)
    \/ \E c \in Registrations : readyBeginTorn(q, NoDeadline, c)
    \/ launch(q)
    \/ \E k \in 1..(MaxChecks + 1) : taskInvoke(q, k)
    \/ \E k \in 1..(MaxChecks + 1), s \in CheckOutcomes : taskReturn(q, k, s)
    \/ \E k \in 1..(MaxChecks + 1) : taskPanic(q, k)
    \/ waitClose(q)
    \/ foldResult(q)
    \/ readyWrite(q)

Next ==
    \/ \E c \in Registrations : RegisterHealthCheck(c)
    \/ live
    \/ \E q \in SerialQueries : ready(q)
    \/ exit

Spec == Init /\ [][Next]_vars

\* The timed specification: a clock, request contexts with deadlines and
\* cancellation, checks that return a status or never return.
readyTimed(q) ==
    \/ \E d \in OuterDeadlines : readyBegin(q, d)
    \/ launch(q)
    \/ \E k \in 1..(MaxChecks + 1) : taskInvoke(q, k)
    \/ \E k \in 1..(MaxChecks + 1), s \in TimedOutcomes : taskReturn(q, k, s)
    \/ waitClose(q)
    \/ foldResult(q)
    \/ readyWrite(q)
    \/ outerCancel(q)

NextTimed ==
    \/ \E c \in TimedRegistrations : RegisterHealthCheck(c)
    \/ \E q \in SerialQueries : readyTimed(q)
    \/ tick

SpecTimed == Init /\ [][NextTimed]_vars

\* The fan-in specification: every check returns a status (none panics,
\* none blocks for ever) and the scheduler runs every runnable goroutine.
readyFanIn(q) ==
    \/ readyBegin(q, NoDeadline)
    \/ launch(q)
    \/ \E k \in 1..(MaxChecks + 1) : taskInvoke(q, k)
    \/ \E k \in 1..(MaxChecks + 1), s \in TimedOutcomes : taskReturn(q, k, s)
    \/ waitClose(q)
    \/ foldResult(q)
    \/ readyWrite(q)

NextFanIn ==
    \/ \E c \in TimedRegistrations : RegisterHealthCheck(c)
    \/ \E q \in SerialQueries : readyFanIn(q)

\* The range loop, the goroutines it starts, the checks they call and the
\* evaluator after the loop all keep running.
FairFanIn ==
    \A q \in SerialQueries :
        /\ WF_vars(launch(q))
        /\ WF_vars(\E k \in 1..(MaxChecks + 1) : taskInvoke(q, k))
        /\ WF_vars(\E k \in 1..(MaxChecks + 1), s \in TimedOutcomes :
                      taskReturn(q, k, s))
        /\ WF_vars(waitClose(q))
        /\ WF_vars(foldResult(q))
        /\ WF_vars(readyWrite(q))

SpecFanIn == Init /\ [][NextFanIn]_vars /\ FairFanIn

\* The concurrent specification: the server runs the handler of every
\* readiness request in a goroutine of its own, so two evaluations overlap.
NextConcurrent ==
    \/ \E c \in TimedRegistrations : RegisterHealthCheck(c)
    \/ \E q \in Queries : readyFanIn(q)

SpecConcurrent == Init /\ [][NextConcurrent]_vars

\* ------------------------------------------- authentication middlewares

\* WithPrincipal followed by PrincipalFromCtx: a nil Principal is stored as
\* a nil interface value and the type assertion on it fails.
WithPrincipal(isNil, p) ==
    IF isNil THEN NoPrincipal ELSE [ok |-> TRUE, p |-> p]

\* PrincipalFromCtx
PrincipalFromCtx(r) == r.principal

\* problem.Respond(w, r): the middleware answers and the chain ends.
Respond(r, statusCode) ==
    [r EXCEPT !.state = "responded", !.code = statusCode]

\* next.ServeHTTP(w, r)
ServeNext(r) ==
    [r EXCEPT !.nextCalls[r.at] = @ + 1, !.at = @ + 1]

\* A request enters the chain ch; the host may have stored a Principal in
\* its context already.
serve(ch, p0) ==
    /\ auth.state # "running"
    /\ auth' = [NoRequest EXCEPT !.state = "running", !.chain = ch, !.at = 1,
                                 !.principal = p0,
                                 !.nextCalls = [i \in DOMAIN ch |-> 0]]
    /\ UNCHANGED <<healthVars, exceptAuth>>

\* The middleware the request is at.
Current(r) == r.chain[r.at]

AtMiddleware(kind) ==
    /\ auth.state = "running"
    /\ auth.at \in DOMAIN auth.chain
    /\ Current(auth).kind = kind

Authenticate_RejectsAnonymous(res) ==
    /\ AtMiddleware("Authenticate")
    /\ auth' =
         LET r == [auth EXCEPT !.authn = res]
         IN  IF res.err THEN Respond(r, StatusInternalServerError)
             ELSE IF res.isNil THEN [r EXCEPT !.state = "panicked"]
             ELSE IF res.p.anonymous THEN Respond(r, StatusUnauthorized)
             ELSE ServeNext([r EXCEPT !.principal = WithPrincipal(res.isNil, res.p)])
    /\ UNCHANGED <<healthVars, exceptAuth>>

\* The handler returned by Authenticate, for an authenticator that returns
\* res.  principal.Name() on a nil Principal panics.
Authenticate(res) ==
    /\ AtMiddleware("Authenticate")
    /\ auth' =
         LET r == [auth EXCEPT !.authn = res]
         IN  IF res.err THEN Respond(r, StatusInternalServerError)
             ELSE IF res.isNil THEN [r EXCEPT !.state = "panicked"]
             ELSE ServeNext([r EXCEPT !.principal = WithPrincipal(res.isNil, res.p)])
    /\ UNCHANGED <<healthVars, exceptAuth>>

\* The handler returned by Authenticated.
Authenticated ==
    /\ AtMiddleware("Authenticated")
    /\ auth' =
         LET c == PrincipalFromCtx(auth)
         IN  IF ~c.ok \/ c.p.anonymous
             THEN Respond(auth, StatusUnauthorized)
             ELSE ServeNext(auth)
    /\ UNCHANGED <<healthVars, exceptAuth>>

RequireRole_RoleFirst ==
    /\ AtMiddleware("RequireRole")
    /\ auth' =
         LET c == PrincipalFromCtx(auth)
         IN  IF ~c.ok THEN Respond(auth, StatusUnauthorized)
             ELSE IF Current(auth).role \notin c.p.roles
             THEN Respond(auth, StatusForbidden)
             ELSE ServeNext(auth)
    /\ UNCHANGED <<healthVars, exceptAuth>>

\* The handler returned by RequireRole(role).
RequireRole ==
    /\ AtMiddleware("RequireRole")
    /\ auth' =
         LET c == PrincipalFromCtx(auth)
         IN  IF ~c.ok \/ c.p.anonymous
             THEN Respond(auth, StatusUnauthorized)
             ELSE IF Current(auth).role \notin c.p.roles
             THEN Respond(auth, StatusForbidden)
             ELSE ServeNext(auth)
    /\ UNCHANGED <<healthVars, exceptAuth>>

\* The handler behind the chain runs and reads the Principal.
handle ==
    /\ auth.state = "running"
    /\ auth.at = Len(auth.chain) + 1
    /\ auth' = [auth EXCEPT !.state = "handled", !.handled = @ + 1,
                            !.seen = PrincipalFromCtx(auth)]
    /\ UNCHANGED <<healthVars, exceptAuth>>

NextAuth ==
    \/ \E ch \in Chains, p0 \in CtxPrincipals : serve(ch, p0)
    \/ \E res \in AuthResults : Authenticate(res)
    \/ Authenticated
    \/ RequireRole
    \/ handle

SpecAuth == Init /\ [][NextAuth]_vars

\* ------------------------------------------------------ ResponseWriter

\* r.wroteHeader.CompareAndSwap(0, 1) followed by r.statusCode = statusCode
\* when the swap succeeded.
MarkHeader(w, statusCode) ==
    IF w.wroteHeader = 0
    THEN [w EXCEPT !.wroteHeader = 1, !.statusCode = statusCode]
    ELSE w

\* The underlying writer takes n bytes; r.bytesWrote += n.
Forward(w, n) ==
    [w EXCEPT !.under.bytes = @ + n, !.bytesWrote = @ + n]

\* The call is appended to the history of the writer.
Logged(w, op, statusCode, n) ==
    [w EXCEPT !.calls = Append(@, [op |-> op, code |-> statusCode, n |-> n])]

\* The body of ResponseWriter.Write.
WriteBytes(w, n) ==
    Forward(MarkHeader(w, StatusOK), n)

\* fallbackReadFromResponseWriter.Write
fallbackWrite(w, n) ==
    Forward(MarkHeader(w, StatusOK), n)

\* io.Copy(&fallbackReadFromResponseWriter{parent: r}, src) for a source of
\* n bytes: an empty source leads to no Write at all.
Copy(w, n) ==
    IF n = 0 THEN w ELSE fallbackWrite(w, n)

\* InstrumentHandler wraps the writer of a new request.
newResponseWriter(readerFrom, stringWriter) ==
    /\ rw' = NewWriter(readerFrom, stringWriter)
    /\ UNCHANGED <<healthVars, exceptWriter>>

WriteHeader_AlwaysForwards(statusCode) ==
    /\ Len(rw.calls) < MaxCalls
    /\ rw' = LET w == Logged(rw, "WriteHeader", statusCode, 0)
             IN  [w EXCEPT !.wroteHeader = 1, !.statusCode = statusCode,
                           !.under.headers = Append(@, statusCode)]
    /\ UNCHANGED <<healthVars, exceptWriter>>

\* ResponseWriter.WriteHeader
WriteHeader(statusCode) ==
    /\ Len(rw.calls) < MaxCalls
    /\ rw' = LET w == Logged(rw, "WriteHeader", statusCode, 0)
             IN  IF w.wroteHeader = 0
                 THEN [MarkHeader(w, statusCode) EXCEPT
                          !.under.headers = Append(@, statusCode)]
                 ELSE w
    /\ UNCHANGED <<healthVars, exceptWriter>>

\* ResponseWriter.Write
Write(n) ==
    /\ Len(rw.calls) < MaxCalls
    /\ rw' = WriteBytes(Logged(rw, "Write", 0, n), n)
    /\ UNCHANGED <<healthVars, exceptWriter>>

\* ResponseWriter.WriteString
WriteString(n) ==
    /\ Len(rw.calls) < MaxCalls
    /\ rw' = LET w == Logged(rw, "WriteString", 0, n)
             IN  IF w.under.stringWriter
                 THEN Forward(MarkHeader(w, StatusOK), n)
                 ELSE WriteBytes(w, n)
    /\ UNCHANGED <<healthVars, exceptWriter>>

\* ResponseWriter.ReadFrom
ReadFrom(n) ==
    /\ Len(rw.calls) < MaxCalls
    /\ rw' = LET w == Logged(rw, "ReadFrom", 0, n)
             IN  IF w.under.readerFrom
                 THEN Forward(MarkHeader(w, StatusOK), n)
                 ELSE Copy(w, n)
    /\ UNCHANGED <<healthVars, exceptWriter>>

NextWriter ==
    \/ \E rf \in BOOLEAN, sw \in BOOLEAN : newResponseWriter(rf, sw)
    \/ \E c \in HeaderCodes : WriteHeader(c)
    \/ \E n \in DataLens : Write(n)
    \/ \E n \in DataLens : WriteString(n)
    \/ \E n \in DataLens : ReadFrom(n)

SpecWriter == Init /\ [][NextWriter]_vars

\* ------------------------------------------------------ ProblemDetails

\* json.Marshal of a value: the JSON type and content it yields.
Marshal(v) ==
    CASE v.t = "string" -> [json |-> "string", s |-> v.s, n |-> 0, fields |-> {}]
      [] v.t = "int" -> [json |-> "number", s |-> "", n |-> v.n, fields |-> {}]
      [] OTHER -> IF v.isNil
                  THEN [json |-> "null", s |-> "", n |-> 0, fields |-> {}]
                  ELSE [json |-> "object", s |-> "", n |-> 0, fields |-> v.fields]

\* writeKV: one member appended to the buffer.
writeKV(b, key, val) == Append(b, [key |-> key, val |-> Marshal(val)])

\* sort.Strings over the keys of the Extensions map.
SortedKeys(ext) == SelectSeq(ExtensionKeys, LAMBDA k : k \in DOMAIN ext)

RECURSIVE writeExtensions(_, _, _)
\* The loop over the sorted extension keys.
writeExtensions(b, keys, ext) ==
    IF keys = <<>> THEN b
    ELSE IF Head(keys) \in reservedKeys
    THEN writeExtensions(b, Tail(keys), ext)
    ELSE writeExtensions(writeKV(b, Head(keys), ext[Head(keys)]), Tail(keys), ext)

\* The five core members, in the fixed order.
writeCore(p) ==
    writeKV(writeKV(writeKV(writeKV(writeKV(<<>>,
        "type", Str(p.Type)), "title", Str(p.Title)), "detail", Str(p.Detail)),
        "instance", Str(p.Instance)), "status", Num(p.StatusCode))

\* BadRequest(violations)
BadRequest(violations) ==
    /\ pd' = [by |-> "BadRequest", given |-> violations,
              Type |-> "about:blank", Title |-> "Bad Request",
              Detail |-> IF violations.isNil \/ violations.fields = {}
                         THEN "malformed" ELSE "see violations",
              Instance |-> "", StatusCode |-> StatusBadRequest,
              Extensions |-> [k \in {"violations"} |-> violations]]
    /\ buf' = <<>>
    /\ UNCHANGED <<healthVars, exceptProblem>>

\* UnprocessableEntity(violations)
UnprocessableEntity(violations) ==
    /\ pd' = [by |-> "UnprocessableEntity", given |-> violations,
              Type |-> "about:blank", Title |-> "Unprocessable Entity",
              Detail |-> IF violations.isNil \/ violations.fields = {}
                         THEN "not processed" ELSE "see violations",
              Instance |-> "", StatusCode |-> StatusUnprocessableEntity,
              Extensions |-> IF violations.fields # {}
                             THEN [k \in {"violations"} |-> violations]
                             ELSE [k \in {} |-> violations]]
    /\ buf' = <<>>
    /\ UNCHANGED <<healthVars, exceptProblem>>

\* ProblemDetails.AddExtension
AddExtension(key, value) ==
    /\ pd.by # "none"
    /\ pd' = [pd EXCEPT !.Extensions =
                 [k \in DOMAIN pd.Extensions \cup {key} |->
                     IF k = key THEN value ELSE pd.Extensions[k]]]
    /\ buf' = <<>>
    /\ UNCHANGED <<healthVars, exceptProblem>>

\* ProblemDetails.MarshalJSON
MarshalJSON ==
    /\ pd.by # "none"
    /\ buf' = writeExtensions(writeCore(pd), SortedKeys(pd.Extensions),
                              pd.Extensions)
    /\ UNCHANGED pd
    /\ UNCHANGED <<healthVars, exceptProblem>>

NextProblem ==
    \/ \E v \in ViolationInputs : BadRequest(v)
    \/ \E v \in ViolationInputs : UnprocessableEntity(v)
    \/ \E i \in DOMAIN ExtensionKeys, x \in ExtensionValues :
          AddExtension(ExtensionKeys[i], x)
    \/ MarshalJSON

SpecProblem == Init /\ [][NextProblem]_vars

\* ----------------------------------------------------- PUT /log/level

\* log.ParseLevel: the level and whether the error is nil.
ParseLevel(lvl) ==
    IF ToLower(lvl) \in DOMAIN LevelOf
    THEN [level |-> LevelOf[ToLower(lvl)], ok |-> TRUE]
    ELSE [level |-> LevelInfo, ok |-> FALSE]

\* Logger.SetLevel on z.logger; the global logger follows when z.logger is
\* the global logger.
SetYuna(l, lvl) ==
    [l EXCEPT !.yuna = lvl, !.global = IF l.shared THEN lvl ELSE @]

\* Logger.SetLevel on the global logger.
SetGlobal(l, lvl) ==
    [l EXCEPT !.global = lvl, !.yuna = IF l.shared THEN lvl ELSE @]

\* The host configures Yuna with a logger of its own (WithLogger).
WithLogger(lvl) ==
    /\ logs.shared
    /\ logs' = [logs EXCEPT !.shared = FALSE, !.yuna = lvl]
    /\ UNCHANGED <<healthVars, exceptLogs>>

\* The host calls Logger.SetLevel on one of the two loggers.
SetLevel(onGlobal, lvl) ==
    /\ logs' = IF onGlobal THEN SetGlobal(logs, lvl) ELSE SetYuna(logs, lvl)
    /\ UNCHANGED <<healthVars, exceptLogs>>

putLogLevel_IgnoresParseError(body) ==
    /\ logs' =
         LET l == [logs EXCEPT !.req = body]
             parsed == ParseLevel(body.level)
         IN  IF ~body.decodes
             THEN [l EXCEPT !.code = StatusBadRequest, !.success = FALSE]
             ELSE [SetGlobal(SetYuna(l, parsed.level), parsed.level)
                      EXCEPT !.code = StatusOK, !.success = TRUE]
    /\ UNCHANGED <<healthVars, exceptLogs>>

\* The handler of PUT /log/level.
putLogLevel(body) ==
    /\ logs' =
         LET l == [logs EXCEPT !.req = body]
             parsed == ParseLevel(body.level)
         IN  IF ~body.decodes
             THEN [l EXCEPT !.code = StatusBadRequest, !.success = FALSE]
             ELSE IF ~parsed.ok
             THEN [l EXCEPT !.code = StatusBadRequest, !.success = FALSE]
             ELSE [SetGlobal(SetYuna(l, parsed.level), parsed.level)
                      EXCEPT !.code = StatusOK, !.success = TRUE]
    /\ UNCHANGED <<healthVars, exceptLogs>>

NextLogs ==
    \/ \E lvl \in Levels : WithLogger(lvl)
    \/ \E g \in BOOLEAN, lvl \in Levels : SetLevel(g, lvl)
    \/ \E b \in Bodies : putLogLevel(b)

SpecLogs == Init /\ [][NextLogs]_vars

\* ---------------------------------------------------- Start, StartTLS

\* fmt.Errorf("... HTTP server: %w", err)
Wrap(from, e) == [from |-> from, wraps |-> e]

\* errors.Is(err, target) for an error made by Wrap.
Is(err, target) == err.wraps = target

Start_Cap1(tls) ==
    /\ srv.start = "idle"
    /\ srv' = [srv EXCEPT !.start = "recv1", !.tls = tls, !.cap = 1,
                          !.g = [x \in Servers |-> "serving"]]
    /\ UNCHANGED <<healthVars, exceptStart>>

\* Start (tls false) and StartTLS (tls true) up to the first receive: the
\* channel is made and the two goroutines are launched.
Start(tls) ==
    /\ srv.start = "idle"
    /\ srv' = [srv EXCEPT !.start = "recv1", !.tls = tls, !.cap = 2,
                          !.g = [x \in Servers |-> "serving"]]
    /\ UNCHANGED <<healthVars, exceptStart>>

\* ListenAndServe (ListenAndServeTLS) of server x returns e: ErrServerClosed
\* once the server was closed, another error otherwise.
ListenAndServe(x, e) ==
    /\ srv.g[x] = "serving"
    /\ e = ErrServerClosed <=> srv.closed[x]
    /\ srv' = [srv EXCEPT !.g[x] = "stopped", !.err[x] = e]
    /\ UNCHANGED <<healthVars, exceptStart>>

\* The goroutine of server x sends its wrapped error on errs.
send(x) ==
    /\ srv.g[x] = "stopped"
    /\ Len(srv.errs) < srv.cap
    /\ srv' = [srv EXCEPT !.g[x] = "sent",
                          !.errs = Append(@, Wrap(x, srv.err[x]))]
    /\ UNCHANGED <<healthVars, exceptStart>>

\* The first "err := <-errs" of Start and what follows it.
recvFirst ==
    /\ srv.start = "recv1"
    /\ srv.errs # <<>>
    /\ srv' =
         LET err == Head(srv.errs)
             r == [srv EXCEPT !.errs = Tail(@), !.first = err]
         IN  IF ~Is(err, ErrServerClosed)
             THEN [r EXCEPT !.closed = [x \in Servers |-> TRUE],
                            !.start = "returned", !.via = 1, !.ret = "error"]
             ELSE [r EXCEPT !.start = "recv2"]
    /\ UNCHANGED <<healthVars, exceptStart>>

\* The second "err = <-errs" of Start and what follows it.
recvSecond ==
    /\ srv.start = "recv2"
    /\ srv.errs # <<>>
    /\ srv' =
         LET err == Head(srv.errs)
             r == [srv EXCEPT !.errs = Tail(@), !.second = err,
                              !.start = "returned", !.via = 2]
         IN  IF ~Is(err, ErrServerClosed)
             THEN [r EXCEPT !.ret = "error"]
             ELSE [r EXCEPT !.ret = "nil"]
    /\ UNCHANGED <<healthVars, exceptStart>>

\* Close or Shutdown reaches server x (Yuna.Close, Yuna.Shutdown).
closeServer(x) ==
    /\ ~srv.closed[x]
    /\ srv' = [srv EXCEPT !.closed[x] = TRUE]
    /\ UNCHANGED <<healthVars, exceptStart>>

NextStart ==
    \/ \E tls \in BOOLEAN : Start(tls)
    \/ \E x \in Servers, e \in {ErrServerClosed, ErrOther} : ListenAndServe(x, e)
    \/ \E x \in Servers : send(x)
    \/ recvFirst
    \/ recvSecond
    \/ \E x \in Servers : closeServer(x)

\* The scheduler runs a goroutine that can send, and Start when it can
\* receive.
FairStart ==
    /\ \A x \in Servers : WF_vars(send(x))
    /\ WF_vars(recvFirst)
    /\ WF_vars(recvSecond)

SpecStart == Init /\ [][NextStart]_vars /\ FairStart

\* ------------------------------------------------------- claim helpers

\* The results one evaluation's goroutines have published, in send order.
Published(q) == results[q].buf

\* The report of query q has been returned and written.
Reported(q) == pc[q] = "done" /\ resp[q].kind = "ready"

CriticalDownIn(rs) ==
    \E i \in DOMAIN rs : rs[i].critical /\ rs[i].status = StatusDown

NonCriticalDownIn(rs) ==
    \E i \in DOMAIN rs : ~rs[i].critical /\ rs[i].status = StatusDown

DegradedIn(rs) ==
    \E i \in DOMAIN rs : rs[i].status = StatusDegraded

Severity(s) ==
    CASE s = StatusUp -> 0
      [] s = StatusDegraded -> 1
      [] s = StatusDown -> 2
      [] OTHER -> 3

RECURSIVE FoldSeq(_, _)
\* The fold loop applied to a whole sequence of results.
FoldSeq(overall, rs) ==
    IF rs = <<>> THEN overall
    ELSE FoldSeq(FoldStatus(overall, Head(rs)), Tail(rs))

Permuted(rs, p) == [i \in DOMAIN rs |-> rs[p[i]]]

CountName(seq, n, field) ==
    Cardinality({i \in DOMAIN seq : seq[i][field] = n})

\* ------------------------------------------------------------- claims

\* C1: whenever a report has been produced and some check registered as
\* critical returned DOWN in that evaluation, the report's overall status is
\* DOWN, whatever else was returned and in whatever order results were folded.
C1_CriticalDownDominates ==
    \A q \in Queries :
        (Reported(q) /\ CriticalDownIn(Published(q)))
            => resp[q].body.Status = StatusDown

\* A critical DOWN was folded first and a DEGRADED result after it.
C1_Witness ==
    \E q \in Queries :
        /\ Reported(q)
        /\ Len(Published(q)) >= 2
        /\ Published(q)[1].critical /\ Published(q)[1].status = StatusDown
        /\ Published(q)[2].status = StatusDegraded
        /\ resp[q].body.Status = StatusDown

\* C2: whenever a report has been produced, no critical check returned DOWN,
\* and some check returned DEGRADED or some non-critical check returned DOWN,
\* the report's overall status is DEGRADED.
C2_DegradedWithoutCriticalDown ==
    \A q \in Queries :
        (/\ Reported(q)
         /\ ~CriticalDownIn(Published(q))
         /\ (DegradedIn(Published(q)) \/ NonCriticalDownIn(Published(q))))
            => resp[q].body.Status = StatusDegraded

\* A non-critical DOWN followed by an UP, with no DEGRADED result at all.
C2_Witness ==
    \E q \in Queries :
        /\ Reported(q)
        /\ Len(Published(q)) >= 2
        /\ ~Published(q)[1].critical /\ Published(q)[1].status = StatusDown
        /\ Published(q)[2].status = StatusUp
        /\ ~DegradedIn(Published(q))
        /\ ~CriticalDownIn(Published(q))
        /\ resp[q].body.Status = StatusDegraded

\* C3: a report's overall status is DOWN only if some critical check
\* returned DOWN in that evaluation.
C3_DownOnlyIfCriticalDown ==
    \A q \in Queries :
        (Reported(q) /\ resp[q].body.Status = StatusDown)
            => CriticalDownIn(Published(q))

\* Non-critical DOWN combined with a DEGRADED from a critical check.
C3_Witness ==
    \E q \in Queries :
        /\ Reported(q)
        /\ Len(Published(q)) >= 2
        /\ NonCriticalDownIn(Published(q))
        /\ \E i \in DOMAIN Published(q) :
              Published(q)[i].critical /\ Published(q)[i].status = StatusDegraded
        /\ ~CriticalDownIn(Published(q))
        /\ resp[q].body.Status = StatusDegraded

\* C4: the overall status of a report equals the fold of every permutation
\* of the results that evaluation published: completion order is irrelevant.
C4_FoldOrderIndependent ==
    \A q \in Queries :
        Reported(q) =>
            \A p \in Permutations(DOMAIN Published(q)) :
                FoldSeq(StatusUp, Permuted(Published(q), p)) = resp[q].body.Status

\* A DEGRADED result was published after a critical DOWN: the two orders
\* pass through different running statuses.
C4_Witness ==
    \E q \in Queries :
        /\ Reported(q)
        /\ \E i, j \in DOMAIN Published(q) :
              /\ i < j
              /\ Published(q)[i].critical /\ Published(q)[i].status = StatusDown
              /\ ~Published(q)[j].critical /\ Published(q)[j].status = StatusDegraded

\* C5: when every check of an evaluation returned UP the report's overall
\* status is UP; with zero checks the report is UP with no components.
C5_AllUpIsUp ==
    \A q \in Queries :
        Reported(q) =>
            /\ (\A i \in DOMAIN Published(q) : Published(q)[i].status = StatusUp)
                  => resp[q].body.Status = StatusUp
            /\ snap[q] = <<>>
                  => (resp[q].body.Status = StatusUp /\ resp[q].body.Components = <<>>)

\* Two or more checks, one of them critical, all returned UP.
C5_Witness ==
    \E q \in Queries :
        /\ Reported(q)
        /\ Len(Published(q)) >= 2
        /\ \A i \in DOMAIN Published(q) : Published(q)[i].status = StatusUp
        /\ \E i \in DOMAIN Published(q) : Published(q)[i].critical
        /\ resp[q].body.Status = StatusUp

\* C6: the running overall status starts at UP when the fold begins and no
\* fold step lowers its severity (UP < DEGRADED < DOWN).
C6_RunningStatusMonotone ==
    [][\A q \in Queries :
          /\ (pc[q] # "fold" /\ pc'[q] = "fold")
                => response'[q].Status = StatusUp
          /\ (pc[q] = "fold" /\ pc'[q] = "fold")
                => Severity(response'[q].Status) >= Severity(response[q].Status)
      ]_vars

\* An UP result has just been folded after the status had reached DOWN.
C6_Witness ==
    \E q \in Queries :
        /\ pc[q] = "fold"
        /\ results[q].head >= 2
        /\ Published(q)[results[q].head].status = StatusUp
        /\ response[q].Status = StatusDown

\* C7: while an evaluation folds or has returned, every goroutine launched
\* for it has returned and published its result, one per registration read.
C7_FanInBarrier ==
    \A q \in Queries :
        pc[q] \in {"fold", "done"} =>
            /\ Len(task[q]) = Len(snap[q])
            /\ \A k \in DOMAIN task[q] : task[q][k] = "done"
            /\ Len(Published(q)) = Len(snap[q])
            /\ wg[q] = 0

\* Folding is about to begin over the results of two or more checks.
C7_Witness ==
    \E q \in Queries :
        /\ pc[q] = "fold"
        /\ results[q].head = 0
        /\ Len(snap[q]) >= 2
        /\ Len(Published(q)) = Len(snap[q])

\* C8: a report has as many components as the registration sequence the
\* evaluation read, and as many entries of each name as were registered.
C8_ComponentsLength ==
    \A q \in Queries :
        Reported(q) =>
            /\ Len(resp[q].body.Components) = Len(snap[q])
            /\ \A n \in Names :
                  CountName(resp[q].body.Components, n, "Name")
                      = CountName(snap[q], n, "name")

\* The same name was registered twice and the report lists it twice.
C8_Witness ==
    \E q \in Queries :
        /\ Reported(q)
        /\ \E i, j \in DOMAIN snap[q] : i # j /\ snap[q][i].name = snap[q][j].name
        /\ \E i, j \in DOMAIN resp[q].body.Components :
              /\ i # j
              /\ resp[q].body.Components[i].Name = resp[q].body.Components[j].Name

\* C9: StatusCode maps UP and DEGRADED to 200 and DOWN and every other value
\* to 503, and the code of a readiness response is that mapping of the
\* report's overall status.
C9_StatusCodeMapping ==
    /\ \A s \in CheckOutcomes :
          StatusCode(s) = IF s \in {StatusUp, StatusDegraded}
                          THEN StatusOK ELSE StatusServiceUnavailable
    /\ \A q \in Queries :
          resp[q].kind = "ready" =>
              resp[q].code = IF resp[q].body.Status \in {StatusUp, StatusDegraded}
                             THEN StatusOK ELSE StatusServiceUnavailable

\* A DEGRADED report was answered with 200.
C9_Witness ==
    \E q \in Queries :
        /\ resp[q].kind = "ready"
        /\ resp[q].body.Status = StatusDegraded
        /\ resp[q].code = StatusOK

\* C10: every liveness response is UP with code 200, and the step that
\* writes it changes nothing of any evaluation: no check is invoked.
C10_LiveAlwaysUp ==
    /\ [](liveResp.kind = "live"
            => (liveResp.status = StatusUp /\ liveResp.code = StatusOK))
    /\ [][liveResp' # liveResp => UNCHANGED <<components, asked, evalVars>>]_vars

\* Liveness has answered while a critical check has returned DOWN and
\* another check of the same evaluation is still running.
C10_Witness ==
    /\ liveResp.kind = "live"
    /\ liveResp.code = StatusOK
    /\ \E q \in Queries :
          /\ CriticalDownIn(Published(q))
          /\ \E k \in DOMAIN task[q] : task[q][k] = "checking"

\* ------------------------------------------- claim helpers (C11 - C20)

\* The timeout RegisterHealthCheck is to store for a requested timeout.
Effective(t) == IF t = 0 THEN DefaultTimeout ELSE t

\* Goroutine k of query q has called WithTimeout and Check.
Invoked(q, k) == task[q][k] \in {"checking", "done"} \/ calls[q][k] > 0

\* Every goroutine of query q has been launched.
AllLaunched(q) == pc[q] = "launch" /\ Len(task[q]) = Len(snap[q])

\* The timeout of check k of query q has elapsed since the evaluation began.
TimeoutElapsed(q, k) == now >= timing[q].start + snap[q][k].timeout

\* The largest timeout among the registrations rs (0 when there are none).
RECURSIVE MaxTimeout(_)
MaxTimeout(rs) ==
    IF rs = <<>> THEN 0
    ELSE LET m == MaxTimeout(Tail(rs))
         IN  IF Head(rs).timeout >= m THEN Head(rs).timeout ELSE m

\* How many report entries of query q carry name n and status st.
Listed(q, n, st) ==
    Cardinality({i \in DOMAIN response[q].Components :
                    /\ response[q].Components[i].Name = n
                    /\ response[q].Components[i].Status = st})

\* How many checks named n of query q returned status st.
Returned(q, n, st) ==
    Cardinality({k \in DOMAIN returned[q] :
                    snap[q][k].name = n /\ returned[q][k] = st})

\* ------------------------------------------------------------- claims

\* C11: every call of RegisterHealthCheck appends a registration; the one
\* passed with Timeout 0 is stored with 1 second, any other keeps its Timeout,
\* and the context a check runs under is made from the stored Timeout.
C11_ZeroTimeoutDefaults ==
    /\ Len(components) = Len(asked)
    /\ \A i \in DOMAIN components :
          components[i].timeout = Effective(asked[i])
    /\ \A q \in Queries : \A k \in DOMAIN task[q] :
          task[q][k] \in {"checking", "done"} =>
              cctx[q][k].deadline =
                  EarlierDeadline(outer[q].deadline,
                                  At(timing[q].start + Effective(asked[k])))

\* A check registered with Timeout 0 runs under a one-second deadline while
\* a check registered with 2 seconds kept its two seconds.
C11_Witness ==
    \E q \in Queries : \E k, j \in DOMAIN task[q] :
        /\ asked[k] = 0 /\ asked[j] = DefaultTimeout + 1
        /\ task[q][k] = "checking" /\ task[q][j] = "checking"
        /\ ~outer[q].deadline.has
        /\ cctx[q][k].deadline = At(timing[q].start + DefaultTimeout)
        /\ cctx[q][j].deadline = At(timing[q].start + DefaultTimeout + 1)

\* C12: while the process runs, a check that has not returned blocks nothing
\* of the others: the next goroutine can be launched, every launched
\* goroutine can invoke its check, and every running check can return and
\* publish its result.
C12_HungCheckBlocksNoOther ==
    \A q \in Queries :
        Alive =>
            /\ (pc[q] = "launch" /\ Len(task[q]) < Len(snap[q]))
                  => ENABLED launch(q)
            /\ \A k \in DOMAIN task[q] :
                  /\ task[q][k] = "spawned" => ENABLED taskInvoke(q, k)
                  /\ task[q][k] = "checking" => ENABLED taskReturn(q, k, StatusUp)

\* The first check is still running while a later one has already
\* published its result.
C12_Witness ==
    \E q \in Queries : \E k, j \in DOMAIN task[q] :
        /\ k < j
        /\ task[q][k] = "checking"
        /\ task[q][j] = "done"
        /\ Len(Published(q)) >= 1

\* C13: when no check of an evaluation returned after its deadline, the time
\* from the entry of readyStatus to its return is at most the largest
\* timeout of the checks it ran.
C13_LatencyBoundedByMax ==
    \A q \in Queries :
        (Reported(q) /\ ~timing[q].late)
            => timing[q].finish <= timing[q].start + MaxTimeout(snap[q])

\* Two checks with timeouts 1 and 2 both returned at their deadline and the
\* evaluation took 2, not 3.
C13_Witness ==
    \E q \in Queries :
        /\ Reported(q)
        /\ ~timing[q].late
        /\ Len(snap[q]) >= 2
        /\ \E k, j \in DOMAIN snap[q] :
              snap[q][k].timeout = DefaultTimeout /\ snap[q][j].timeout = DefaultTimeout + 1
        /\ timing[q].finish = timing[q].start + DefaultTimeout + 1

\* C14: the context of every invoked check has the earlier of the request
\* context's deadline and evaluation start plus the check's timeout as its
\* deadline, and is done whenever the request context is done or that
\* deadline has been reached.
C14_ChildContextBounded ==
    \A q \in Queries : \A k \in DOMAIN task[q] :
        task[q][k] \in {"checking", "done"} =>
            /\ cctx[q][k].deadline =
                  EarlierDeadline(outer[q].deadline,
                                  At(timing[q].start + snap[q][k].timeout))
            /\ outer[q].done => cctx[q][k].done
            /\ Expired(cctx[q][k].deadline, now) => cctx[q][k].done

\* The request context was cancelled before any deadline while a check was
\* still running, and the check's context is done.
C14_Witness ==
    \E q \in Queries : \E k \in DOMAIN task[q] :
        /\ task[q][k] = "checking"
        /\ outer[q].done
        /\ ~Expired(cctx[q][k].deadline, now)
        /\ cctx[q][k].done

C17_PanicReturnsNoReport ==
    \A q \in Queries :
        (\E k \in DOMAIN task[q] : task[q][k] = "panicked" /\ calls[q][k] = 1)
            => /\ pc[q] \notin {"fold", "done"}
               /\ resp[q].kind # "ready"

\* C8 when a check panics: the report of an evaluation all of whose
\* registered checks were called has one entry for every one of them.
C8_ReportListsEveryCheck ==
    \A q \in Queries :
        (Reported(q) /\ \A k \in DOMAIN snap[q] : snap[q][k].checker # "nil")
            => Len(resp[q].body.Components) = Len(snap[q])

\* C18: a registration made while an evaluation is in flight leaves that
\* evaluation's slice, channel capacity and launched goroutines as they
\* were, and an evaluation that begins when no registration is under way
\* reads the whole current registration sequence.
C18_EvaluationUsesSnapshot ==
    [][\A q \in Queries :
          /\ (pc[q] \in {"launch", "fold"} /\ components' # components)
                => /\ snap'[q] = snap[q]
                   /\ results'[q].cap = results[q].cap
                   /\ task'[q] = task[q]
          /\ (pc[q] \in {"idle", "done"} /\ pc'[q] = "launch" /\ components' = components)
                => /\ snap'[q] = components
                   /\ results'[q].cap = Len(components)
      ]_vars

\* An evaluation reported on fewer checks than are registered now: a check
\* was registered while it was in flight.
C18_Witness ==
    \E q \in Queries :
        /\ Reported(q)
        /\ Len(snap[q]) >= 1
        /\ Len(components) > Len(snap[q])
        /\ Len(resp[q].body.Components) = Len(snap[q])
        /\ \A k \in DOMAIN snap[q] : snap[q][k] = components[k]

\* C19: every step that changes the registration sequence appends exactly
\* one registration and keeps the earlier ones in place; the steps of live
\* and of an evaluation past its first read leave the sequence unchanged.
C19_AppendOnly ==
    [][/\ components' # components
            => /\ Len(components') = Len(components) + 1
               /\ SubSeq(components', 1, Len(components)) = components
               /\ asked' # asked
       /\ (\/ liveResp' # liveResp
           \/ \E q \in Queries : (pc[q] \in {"launch", "fold"} /\ pc'[q] # pc[q])
           \/ \E q \in Queries : (task'[q] # task[q] /\ pc'[q] = pc[q])
           \/ \E q \in Queries : (response'[q] # response[q] /\ pc'[q] = pc[q]))
            => components' = components
      ]_vars

\* Two registrations are in place and an evaluation has reported in between.
C19_Witness ==
    /\ Len(components) >= 2
    /\ liveResp.kind = "live"
    /\ \E q \in Queries : Reported(q) /\ Len(snap[q]) = 1

\* C20: a readiness response carries one status out of UP, DEGRADED and
\* DOWN, its X-Health-Status header is that status, and its status code is
\* the code of that status.
C20_ResponseConsistent ==
    \A q \in Queries :
        resp[q].kind = "ready" =>
            /\ resp[q].body.Status \in DeclaredStatuses
            /\ resp[q].header = resp[q].body.Status
            /\ resp[q].code = StatusCode(resp[q].header)

\* Every component is DOWN, one of them critical.
C20_Witness ==
    \E q \in Queries :
        /\ resp[q].kind = "ready"
        /\ Len(resp[q].body.Components) >= 2
        /\ \A i \in DOMAIN resp[q].body.Components :
              resp[q].body.Components[i].Status = StatusDown
        /\ resp[q].body.Status = StatusDown
        /\ resp[q].header = "DOWN"
        /\ resp[q].code = StatusServiceUnavailable

\* C22: every step of the RequireRole middleware invokes the next handler
\* exactly when the context holds a Principal that is not anonymous and has
\* the role; it answers 401 when the Principal is absent or anonymous
\* (whatever its roles), 403 when it is present, not anonymous and lacks the
\* role, and in both cases leaves the next handler uninvoked.
C22_RequireRoleDecides ==
    [][(AtMiddleware("RequireRole") /\ auth' # auth) =>
        LET c == auth.principal
            role == Current(auth).role
            allowed == c.ok /\ ~c.p.anonymous /\ role \in c.p.roles
        IN  /\ (auth'.nextCalls[auth.at] = 1) <=> allowed
            /\ auth'.nextCalls[auth.at] <= 1
            /\ allowed => (auth'.state = "running" /\ auth'.code = 0)
            /\ (~c.ok \/ c.p.anonymous) =>
                   (auth'.state = "responded" /\ auth'.code = StatusUnauthorized)
            /\ (c.ok /\ ~c.p.anonymous /\ role \notin c.p.roles) =>
                   (auth'.state = "responded" /\ auth'.code = StatusForbidden)
      ]_vars

\* RequireRole answered 401 to an anonymous Principal that has the role.
C22_Witness ==
    /\ auth.state = "responded"
    /\ auth.at \in DOMAIN auth.chain
    /\ Current(auth).kind = "RequireRole"
    /\ auth.code = StatusUnauthorized
    /\ auth.principal.ok
    /\ auth.principal.p.anonymous
    /\ Current(auth).role \in auth.principal.p.roles
    /\ auth.nextCalls[auth.at] = 0

\* C23 as stated: a step of the Authenticate middleware answers 500 without
\* invoking the next handler when the authenticator returned an error, and
\* otherwise invokes the next handler once with the returned Principal in
\* the request context.
C23_AuthenticateNeverRejects ==
    [][(AtMiddleware("Authenticate") /\ auth' # auth) =>
        IF auth'.authn.err
        THEN /\ auth'.state = "responded"
             /\ auth'.code = StatusInternalServerError
             /\ auth'.nextCalls[auth.at] = 0
        ELSE /\ auth'.state = "running"
             /\ auth'.code = 0
             /\ auth'.nextCalls[auth.at] = 1
             /\ PrincipalFromCtx(auth') = [ok |-> TRUE, p |-> auth'.authn.p]
      ]_vars

\* C23 amended: the same, for an authenticator that returns a non-nil
\* Principal with a nil error; with a nil Principal and a nil error the
\* middleware panics and the next handler is not invoked.  The handler
\* behind the chain runs at most once.
C23_AuthenticatePassesPrincipal ==
    /\ [](auth.handled <= 1)
    /\ [][(AtMiddleware("Authenticate") /\ auth' # auth) =>
            IF auth'.authn.err
            THEN /\ auth'.state = "responded"
                 /\ auth'.code = StatusInternalServerError
                 /\ auth'.nextCalls[auth.at] = 0
            ELSE IF auth'.authn.isNil
            THEN /\ auth'.state = "panicked"
                 /\ auth'.nextCalls[auth.at] = 0
            ELSE /\ auth'.state = "running"
                 /\ auth'.code = 0
                 /\ auth'.nextCalls[auth.at] = 1
                 /\ PrincipalFromCtx(auth') = [ok |-> TRUE, p |-> auth'.authn.p]
         ]_vars

\* An anonymous Principal passed Authenticate and the handler behind it read
\* that Principal from the context.
C23_Witness ==
    /\ auth.state = "handled"
    /\ auth.chain = <<[kind |-> "Authenticate", role |-> ""]>>
    /\ ~auth.authn.err
    /\ ~auth.authn.isNil
    /\ auth.authn.p.anonymous
    /\ auth.nextCalls[1] = 1
    /\ auth.handled = 1
    /\ auth.seen = [ok |-> TRUE, p |-> auth.authn.p]

\* The status the writer must have recorded, and the WriteHeader calls the
\* underlying writer must have received, when the calls with index in idx
\* are the ones that mark the header written.
DecidedBy(idx) ==
    IF idx = {}
    THEN /\ rw.statusCode = StatusOK
         /\ rw.wroteHeader = 0
         /\ rw.under.headers = <<>>
    ELSE LET first == rw.calls[CHOOSE i \in idx : \A j \in idx : i <= j]
         IN  IF first.op = "WriteHeader"
             THEN /\ rw.statusCode = first.code
                  /\ rw.under.headers = <<first.code>>
             ELSE /\ rw.statusCode = StatusOK
                  /\ rw.under.headers = <<>>

\* Once the header is marked written, no call on the same writer changes
\* the recorded status or reaches the underlying WriteHeader.
HeaderWrittenOnce ==
    [][(rw.wroteHeader = 1 /\ rw'.calls # <<>>) =>
          /\ rw'.wroteHeader = 1
          /\ rw'.statusCode = rw.statusCode
          /\ rw'.under.headers = rw.under.headers]_vars

\* C26 as stated: the first call on the writer decides the recorded status,
\* which is the code of a WriteHeader call or 200 for Write, WriteString and
\* ReadFrom; later WriteHeader calls change nothing and are not forwarded.
C26_FirstCallDecides ==
    /\ [](DecidedBy(DOMAIN rw.calls))
    /\ HeaderWrittenOnce

\* C26 amended: the same, where a ReadFrom call counts as a body write only
\* if the underlying writer implements io.ReaderFrom or the source is not
\* empty.
C26_FirstMarkingCallDecides ==
    /\ [](DecidedBy({i \in DOMAIN rw.calls :
                        \/ rw.calls[i].op # "ReadFrom"
                        \/ rw.under.readerFrom
                        \/ rw.calls[i].n > 0}))
    /\ HeaderWrittenOnce

\* A body write came first and a later WriteHeader(404) neither changed the
\* recorded 200 nor reached the underlying writer.
C26_Witness ==
    /\ Len(rw.calls) >= 2
    /\ rw.calls[1].op = "Write"
    /\ rw.calls[2] = [op |-> "WriteHeader", code |-> 404, n |-> 0]
    /\ rw.statusCode = StatusOK
    /\ rw.under.headers = <<>>

\* The members of the buffer that have key k.
Members(k) == {i \in DOMAIN buf : buf[i].key = k}

\* C29: the JSON object MarshalJSON wrote for a ProblemDetails built by
\* BadRequest or UnprocessableEntity with non-empty violations, and still
\* holding them, has a "violations" member with those violations besides the
\* five core members; every core member occurs once, with the value of the
\* core field.
C29_ViolationsSerialized ==
    (buf # <<>> /\ pd.given.fields # {}
        /\ "violations" \in DOMAIN pd.Extensions
        /\ pd.Extensions["violations"] = pd.given) =>
        /\ \E i \in Members("violations") : buf[i].val = Marshal(pd.given)
        /\ \A k \in {"type", "title", "detail", "instance", "status"} :
              Cardinality(Members(k)) = 1
        /\ \E i \in Members("status") : buf[i].val = Marshal(Num(pd.StatusCode))
        /\ \E i \in Members("type") : buf[i].val = Marshal(Str(pd.Type))

\* The seven level names, in lower case.
LevelNames == {"trace", "debug", "info", "warn", "error", "panic", "fatal"}

\* The level a valid name stands for.
NamedLevel(n) ==
    CASE n = "trace" -> -5 [] n = "debug" -> -4 [] n = "info" -> 0
      [] n = "warn" -> 4 [] n = "error" -> 8 [] n = "panic" -> 10
      [] OTHER -> 12

\* C30: every step of the PUT /log/level handler answers 400 with
\* success=false and leaves both levels as they were when the body does not
\* decode or its level is none of the seven names in any case; otherwise it
\* sets both loggers to the named level and answers 200 with success=true.
C30_LogLevelUpdate ==
    [][(\E b \in Bodies : putLogLevel(b)) =>
        LET b == logs'.req
            valid == b.decodes /\ ToLower(b.level) \in LevelNames
        IN  IF valid
            THEN /\ logs'.yuna = NamedLevel(ToLower(b.level))
                 /\ logs'.global = NamedLevel(ToLower(b.level))
                 /\ logs'.code = StatusOK
                 /\ logs'.success
            ELSE /\ logs'.yuna = logs.yuna
                 /\ logs'.global = logs.global
                 /\ logs'.code = StatusBadRequest
                 /\ ~logs'.success
      ]_vars

\* A level name in mixed case was accepted and moved two separate loggers
\* to that level.
C30_Witness ==
    /\ ~logs.shared
    /\ logs.req = [decodes |-> TRUE, level |-> "Warn"]
    /\ logs.code = StatusOK
    /\ logs.success
    /\ logs.yuna = LevelWarn
    /\ logs.global = LevelWarn

\* What holds of Start in every state: it has returned only after receiving
\* an error; after the first receive only with an error and both servers
\* closed; after the second only when the first error was ErrServerClosed,
\* and then with nil exactly when the second one was too; nil only when
\* both servers stopped with ErrServerClosed; a goroutine holding an error
\* finds room in the channel.
StartSafe ==
    /\ srv.start # "returned" => srv.ret = "none"
    /\ srv.start = "returned" =>
          /\ \E x \in Servers : srv.g[x] = "sent"
          /\ srv.via = 1 =>
                /\ srv.ret = "error"
                /\ srv.err[srv.first.from] = ErrOther
                /\ \A x \in Servers : srv.closed[x]
          /\ srv.via = 2 =>
                /\ srv.err[srv.first.from] = ErrServerClosed
                /\ srv.ret = "nil" <=> srv.err[srv.second.from] = ErrServerClosed
          /\ srv.ret = "nil" =>
                \A x \in Servers : srv.g[x] = "sent" /\ srv.err[x] = ErrServerClosed
    /\ \A x \in Servers : srv.g[x] = "stopped" => Len(srv.errs) < srv.cap

\* C24: Start returns only after a server stopped; it returns an error, with
\* both servers closed, when the first server to stop failed; it returns nil
\* only after both servers stopped with ErrServerClosed; a server that stops
\* with another error leads to Start returning an error; and every server
\* goroutine that holds an error gets to send it.
C24_StartReturns ==
    /\ []StartSafe
    /\ \A x \in Servers :
          (srv.g[x] = "stopped" /\ srv.err[x] = ErrOther)
              ~> (srv.start = "returned" /\ srv.ret = "error")
    /\ \A x \in Servers : (srv.g[x] = "stopped") ~> (srv.g[x] = "sent")

\* Start returned an error after the first receive and the other server's
\* goroutine, stopped by the Close of Start, has sent its error too.
C24_Witness ==
    /\ srv.start = "returned"
    /\ srv.via = 1
    /\ srv.ret = "error"
    /\ \A x \in Servers : srv.g[x] = "sent"
    /\ \E x \in Servers : srv.err[x] = ErrServerClosed
    /\ Len(srv.errs) = 1

\* The fold loop of query q receives its next result in this step.
FoldsNext(q) ==
    /\ pc[q] = "fold"
    /\ results'[q].head = results[q].head + 1

\* How many published results of query q have name n and status st.
PublishedAs(q, n, st) ==
    Cardinality({i \in DOMAIN Published(q) :
                    Published(q)[i].name = n /\ Published(q)[i].status = st})

\* C28: a result whose status is none of UP, DEGRADED, DOWN is appended to
\* the components with that status and leaves the overall status as it was,
\* critical or not; a report all of whose results are UP or such a value has
\* overall UP and code 200 and lists each of those values.
C28_OutOfEnumKeepsOverall ==
    /\ [](\A q \in Queries :
            (Reported(q) /\ \A i \in DOMAIN Published(q) :
                               Published(q)[i].status \in {StatusUp, StatusUnknown})
               => /\ resp[q].body.Status = StatusUp
                  /\ resp[q].code = StatusOK
                  /\ \A n \in Names \cup {""} :
                        Listed(q, n, StatusUnknown) = PublishedAs(q, n, StatusUnknown))
    /\ [][\A q \in Queries :
            (FoldsNext(q) /\
             results[q].buf[results[q].head + 1].status \notin DeclaredStatuses)
               => /\ response'[q].Status = response[q].Status
                  /\ response'[q].Components =
                        Append(response[q].Components,
                               [Name |-> results[q].buf[results[q].head + 1].name,
                                Status |-> results[q].buf[results[q].head + 1].status,
                                Tags |-> results[q].buf[results[q].head + 1].tags])
         ]_vars

\* A critical check returned a value outside the enumeration, and the report
\* lists it and is UP with code 200.
C28_Witness ==
    \E q \in Queries : \E i \in DOMAIN Published(q) :
        /\ Reported(q)
        /\ Published(q)[i].critical
        /\ Published(q)[i].status = StatusUnknown
        /\ \A j \in DOMAIN Published(q) :
              Published(q)[j].status \in {StatusUp, StatusUnknown}
        /\ Listed(q, Published(q)[i].name, StatusUnknown) >= 1
        /\ resp[q].body.Status = StatusUp
        /\ resp[q].code = StatusOK

\* The one-to-one maps of 1..n onto itself.
Bijections(n) ==
    {p \in [1..n -> 1..n] : \A i, j \in 1..n : p[i] = p[j] => i = j}

\* C25: the entries of a report correspond one-to-one with the registrations
\* the evaluation read, all of which were called: each entry has the name and
\* tags of its registration and the status that registration's own call of
\* Check returned.
C25_EntriesMatchRegistrations ==
    \A q \in Queries :
        (Reported(q) /\ \A k \in DOMAIN snap[q] : calls[q][k] = 1) =>
            /\ Len(resp[q].body.Components) = Len(snap[q])
            /\ \E p \in Bijections(Len(snap[q])) :
                  \A i \in DOMAIN snap[q] :
                      /\ resp[q].body.Components[i].Name = snap[q][p[i]].name
                      /\ resp[q].body.Components[i].Tags = snap[q][p[i]].tags
                      /\ resp[q].body.Components[i].Status = returned[q][p[i]]

\* A goroutine that has a status to send can send it at once: the channel is
\* open and has a free slot.
SendNeverWaits ==
    \A q \in Queries : \A k \in DOMAIN task[q] :
        task[q][k] = "checking" =>
            /\ ~results[q].closed
            /\ ChanLen(results[q]) < results[q].cap

\* The channel of an evaluation is closed exactly while the evaluation is
\* past the barrier, and then holds one result per launched goroutine.
ClosedAfterAllSends ==
    \A q \in Queries :
        /\ results[q].closed <=> pc[q] \in {"fold", "done"}
        /\ results[q].closed =>
              /\ Len(Published(q)) = Len(snap[q])
              /\ \A k \in DOMAIN task[q] : task[q][k] = "done"
        /\ pc[q] = "launch" => results[q].head = 0

\* C27: the channel has one slot per launched check, so no goroutine waits
\* to send although nothing is received before the barrier; when every check
\* returns, every goroutine finishes, the barrier is passed, the channel is
\* closed once after all the sends, and the evaluation returns its report.
C27_FanInCannotDeadlock ==
    /\ [](SendNeverWaits /\ ClosedAfterAllSends)
    /\ [](\A q \in Queries : results[q].cap = Len(snap[q]))
    /\ \A q \in Queries :
          /\ (pc[q] = "launch") ~> (\A k \in DOMAIN snap[q] : k \in DOMAIN task[q]
                                                          /\ task[q][k] = "done")
          /\ (pc[q] = "launch") ~> (pc[q] = "fold" /\ results[q].closed)
          /\ (pc[q] = "launch") ~> Reported(q)

\* Every goroutine of an evaluation of two checks has sent its result and
\* nothing has been received yet: the channel is full and still open.
C27_Witness ==
    \E q \in Queries :
        /\ pc[q] = "launch"
        /\ Len(snap[q]) >= 2
        /\ ChanLen(results[q]) = results[q].cap
        /\ results[q].cap = Len(snap[q])
        /\ ~results[q].closed
        /\ wg[q] = 0

\* The components the fold loop builds from the results rs.
ComponentsOf(rs) ==
    [i \in DOMAIN rs |->
        [Name |-> rs[i].name, Status |-> rs[i].status, Tags |-> rs[i].tags]]

\* The statuses in the results rs, as a bag.
StatusBag(rs) ==
    [st \in CheckOutcomes |-> Cardinality({i \in DOMAIN rs : rs[i].status = st})]

\* The statuses the calls of query q returned, as a bag.
ReturnedBag(q) ==
    [st \in CheckOutcomes |->
        Cardinality({k \in DOMAIN returned[q] : returned[q][k] = st})]

\* Query q begins a new evaluation in this step.
Begins(q) == pc[q] \in {"idle", "done"} /\ pc'[q] = "launch"

\* C21: every readiness query evaluates afresh: it starts with an empty
\* channel and no call made, calls every check it read exactly once, and its
\* report is the fold of the statuses its own calls returned; a step of one
\* query leaves the results, calls and report of every other query as they
\* were, also while two queries are evaluated at the same time.
C21_FreshEvaluationPerQuery ==
    /\ [](\A q \in Queries :
            Reported(q) =>
               /\ Len(calls[q]) = Len(snap[q])
               /\ \A k \in DOMAIN calls[q] : calls[q][k] = 1
               /\ StatusBag(Published(q)) = ReturnedBag(q)
               /\ resp[q].body.Status = FoldSeq(StatusUp, Published(q))
               /\ resp[q].body.Components = ComponentsOf(Published(q)))
    /\ [][\A q \in Queries :
            /\ Begins(q) =>
                  /\ snap'[q] = components
                  /\ results'[q] = MakeChan(Len(components))
                  /\ calls'[q] = <<>>
                  /\ returned'[q] = <<>>
                  /\ response'[q].Components = <<>>
            /\ \A r \in Queries \ {q} :
                  (<<pc[q], task[q], results[q], response[q], resp[q]>> #
                   <<pc'[q], task'[q], results'[q], response'[q], resp'[q]>>)
                      => <<pc'[r], task'[r], results'[r], response'[r], resp'[r],
                           calls'[r], returned'[r]>>
                         = <<pc[r], task[r], results[r], response[r], resp[r],
                             calls[r], returned[r]>>
         ]_vars

\* Two queries are in flight over the same registrations, the same check
\* returned UP to one and DOWN to the other, and each has folded its own
\* results into a different overall status.
C21_Witness ==
    /\ pc["q1"] = "fold" /\ pc["q2"] = "fold"
    /\ snap["q1"] = snap["q2"] /\ Len(snap["q1"]) >= 1
    /\ ChanLen(results["q1"]) = 0 /\ ChanLen(results["q2"]) = 0
    /\ returned["q1"][1] = StatusUp /\ returned["q2"][1] = StatusDown
    /\ response["q1"].Status = StatusUp
    /\ response["q2"].Status = StatusDegraded

====
